---- MODULE Spec2Model ----
(***************************************************************************)
(* Model of the sqlite3-backed entry store of src/main.py (class           *)
(* SqliteApp): directory provisioning, schema creation and seed top-up,    *)
(* read-back, clearing, and the projection of a row to a button.           *)
(*                                                                         *)
(* Python strings that the program takes apart (the colour encodings) are  *)
(* sequences of one-character strings; texts are opaque strings.  A row is *)
(* the 2-tuple <<text, color>> that sqlite3 returns.  The table and the    *)
(* lists read from it are bags of rows: SELECT without ORDER BY fixes no   *)
(* order.  Every operation runs to completion (single thread), so each is  *)
(* one action; an exception raised inside it is a parameter of the action. *)
(***************************************************************************)
EXTENDS Integers, Sequences, FiniteSets, Bags, TLC

VARIABLES
    dir,          \* state of <user_data_dir>/sqlite: "absent", "exists", "blocked"
                  \* (cannot be created), "file" (a plain file has the name)
    db,           \* the file test.db: [file, table, rows]
    sqlite_dir,   \* SqliteApp.sqlite_dir: "unset", "None" or "sqlite"
    initialized,  \* SqliteApp.initialized: "unset", "True" or "False"
    last,         \* the last call: [op, via, arg, fault, ret, exc, failed, inserted]
    before,       \* dir and db when the last call started
    entry_list,   \* the list the last call returned, if it was ingest_sqlite3
    seeded,       \* rows INSERTed and committed since the last committed DELETE
    base,         \* rows of the initial store that no DELETE has removed
    clears,       \* the last calls that were successful delete_sqlite_entries, to MaxClears
    events,       \* what the last call did to the engine, in order
    open,         \* connections and cursors that are open between calls: [conn, cursor]
    phase,        \* the run of the app: "off", "crashed" (the constructor raised),
                  \* "running", "cleared" (on_stop returned True), "stopped"
    inits,        \* calls of init_sqlite3 in this run of the app
    button        \* load_button: [arg, done, widget]

vars == <<dir, db, sqlite_dir, initialized, last, before, entry_list, seeded, base, clears,
          events, open, phase, inits, button>>

(***************************************************************************)
(* Bounds of the model.                                                    *)
(***************************************************************************)
\* Largest number of rows the store holds when init_sqlite3 is called.
MaxPre == 101
\* Draws of a seeding loop that are explored freely (see DrawsOf); every
\* other draw takes the first palette entries.
MaxFreeDraws == 1
\* Successive successful clears that are told apart.
MaxClears == 2

(***************************************************************************)
(* Constants of the program.                                               *)
(***************************************************************************)
MIN_ENTRIES == 100
TOPUP_TARGET == 101

TEXTS == <<"Test text 1", "blah blah blah", "New info: top secret!",
           "Test text 2", "Lorem Ipsum", "That's My Bag">>

COLORS == << <<"1", "_", "0", ".", "0", "_", "0", ".", "0">>,
             <<"0", ".", "0", "_", "1", "_", "0", ".", "0">>,
             <<"0", ".", "0", "_", "0", ".", "0", "_", "1">>,
             <<"0", ".", "5", "_", "0", ".", "5", "_", "0", ".", "5">>,
             <<"0", ".", "0", "_", "0", ".", "0", "_", "0", ".", "0">>,
             <<"1", "_", "1", "_", "1">> >>

Range(s) == {s[i] : i \in DOMAIN s}

\* The pairs the seeding loop can draw.
Palette == Range(TEXTS) \X Range(COLORS)

\* A row of the store that no seeding wrote.
ForeignRow == <<"old entry", <<"7", "_", "7">> >>

NoCall == [op |-> "none", via |-> "none", arg |-> "none", fault |-> "none", ret |-> "none",
           exc |-> "none", failed |-> "none", inserted |-> 0]
NoWidget == [text |-> "", background_color |-> <<>>]
NoButton == [arg |-> <<"", <<>> >>, done |-> FALSE, widget |-> NoWidget]

(***************************************************************************)
(* The storage engine.                                                     *)
(***************************************************************************)
Copies(row, k) == IF k > 0 THEN [r \in {row} |-> k] ELSE EmptyBag

\* cursor.execute("SELECT COUNT(*) FROM entries").fetchall(): one row, one column.
SelectCount(rows) == << <<BagCardinality(rows)>> >>

\* Variant: the table is dropped and created again.
CreateTable_fresh(d) == [d EXCEPT !.table = TRUE, !.rows = EmptyBag]

\* cursor.execute("CREATE TABLE IF NOT EXISTS entries (text TEXT, color TEXT)");
\* DDL is not part of the implicit transaction, it persists at once.
CreateTable(d) == IF d.table THEN d ELSE [d EXCEPT !.table = TRUE, !.rows = EmptyBag]

\* sqlite3.connect(path) creates the file when its directory exists.
\* Variant: connecting starts from an empty file.
Connect_truncate(d) == [d EXCEPT !.file = TRUE, !.rows = EmptyBag]

Connect(d) == [d EXCEPT !.file = TRUE]

\* Variant: SELECT DISTINCT.
SelectAll_distinct(rows) == SetToBag(BagToSet(rows))

\* cursor.execute("SELECT * FROM entries;").fetchall()
SelectAll(rows) == rows

\* Variant: a DELETE that removes one copy of every row.
DeleteAll_once(rows) == rows (-) SetToBag(BagToSet(rows))

\* cursor.execute("DELETE FROM entries;")
DeleteAll(rows) == EmptyBag

\* conn.commit(): the pending rows become the rows of the file.
Commit(d, pending) == [d EXCEPT !.rows = pending]

(***************************************************************************)
(* init_sqlite3_dir                                                        *)
(***************************************************************************)
\* os.makedirs(sqlite_folder) raises where the folder cannot be created.
\* os.path.exists(sqlite_folder) is also true of a plain file of that name.
init_sqlite3_dir(dr) ==
    IF dr \in {"exists", "file"} THEN [dir |-> dr, folder |-> "sqlite"]
    ELSE IF dr = "absent" THEN [dir |-> "exists", folder |-> "sqlite"]
    ELSE [dir |-> dr, folder |-> "None"]

(***************************************************************************)
(* init_sqlite3                                                            *)
(***************************************************************************)
InitFaults == {"none", "connect", "create", "count", "insert", "commit"}

\* The i-th draw (from 0) of one seeding loop: random.choice(TEXTS),
\* random.choice(COLORS).
\* Variant: the values bound to the two columns in the other order.
Draw_swapped(draws, i) ==
    IF i + 1 <= Len(draws) THEN <<draws[i + 1][2], draws[i + 1][1]>>
    ELSE <<COLORS[1], TEXTS[1]>>

Draw(draws, i) == IF i + 1 <= Len(draws) THEN draws[i + 1] ELSE <<TEXTS[1], COLORS[1]>>

FreeDraws == [1..MaxFreeDraws -> Palette]

\* The draws explored for a call: they matter only to a call that reaches
\* its commit, and are free in a seeding that finds no seeded rows and does
\* not follow a clear directly.
DrawsOf(fault) ==
    IF fault = "none" /\ seeded = EmptyBag /\ clears = 0 THEN FreeDraws ELSE {<<>>}

\* count = len(cursor.execute("SELECT COUNT(*) FROM entries").fetchall())
CountEntries(rows) == Len(SelectCount(rows))

\* Variant: the range the log message announces, 100 - count.
SeedRange_short(count) == MIN_ENTRIES - count

\* range(0, (101 - count))
SeedRange(count) == TOPUP_TARGET - count

Min(a, b) == IF a <= b THEN a ELSE b

\* The rows of the first n draws of a seeding loop, as a bag: the free draws
\* among them, and one copy of the fixed draw for each of the others.
Drawn(n, draws) ==
    LET k == Min(n, Len(draws))
        free == {Draw(draws, i) : i \in 0..(k - 1)}
    IN [r \in free |-> Cardinality({i \in 0..(k - 1) : Draw(draws, i) = r})]
       (+) Copies(Draw(draws, k), n - k)

\* for _ in range(0, n): cursor.execute("INSERT INTO entries VALUES (?, ?)",
\* (text, color)): the pending rows after the n INSERTs of the loop.
SeedLoop(pending, n, draws) == pending (+) Drawn(n, draws)

\* Variant: the pending rows persist although no commit was made.
Rollback_keep(d, pending) == [d EXCEPT !.rows = pending]

\* conn.close() while a transaction is open (closing(...) leaves the with
\* block on an exception): the pending rows are dropped.
Rollback(d, pending) == d

\* Variant: the cursor is closed only when the block ends without exception.
CursorExit_onSuccess(point) == IF point = "none" THEN <<"cursor.close">> ELSE <<>>

\* closing(conn.cursor()).__exit__, on every way out of the with block.
CursorExit(point) == <<"cursor.close">>

\* Variant: the connection is closed only when the block ends without exception.
ConnExit_onSuccess(point) == IF point = "none" THEN <<"conn.close">> ELSE <<>>

\* closing(sqlite3.connect(...)).__exit__, on every way out of the with block.
ConnExit(point) == <<"conn.close">>

\* Variant: a handler that does not catch the exception.
InitExcept_raise(d, point) ==
    [db |-> d, ret |-> "raise", exc |-> "OperationalError", failed |-> point, inserted |-> 0]

\* except: Logger.exception(...); then return success, which is still False.
\* The connection closes without a commit: the file keeps d.
InitExcept(d, point) ==
    [db |-> d, ret |-> "False", exc |-> "none", failed |-> point, inserted |-> 0]

init_sqlite3(arg, dr, d, fault, draws) ==
    IF arg = "None"
    THEN \* logging.debug(...): the name logging is not bound in the module
         [db |-> d, ret |-> "raise", exc |-> "NameError", failed |-> "none", inserted |-> 0]
    ELSE IF dr # "exists" \/ fault = "connect" THEN InitExcept(d, "connect")
    ELSE LET d1 == Connect(d) IN
         IF fault = "create" THEN InitExcept(d1, "create")
    ELSE LET d2 == CreateTable(d1) IN
         IF fault = "count" THEN InitExcept(d2, "count")
    ELSE LET count == CountEntries(d2.rows)
             n == SeedRange(count)
             seeds == ~(count >= MIN_ENTRIES) /\ n > 0
             pending == IF ~(count >= MIN_ENTRIES) THEN SeedLoop(d2.rows, n, draws)
                        ELSE d2.rows
         IN
         \* an INSERT fails: here the last one of the loop
         IF fault = "insert" /\ seeds
         THEN InitExcept(Rollback(d2, SeedLoop(d2.rows, n - 1, draws)), "insert")
    ELSE IF fault = "commit" THEN InitExcept(Rollback(d2, pending), "commit")
    ELSE [db |-> Commit(d2, pending), ret |-> "True", exc |-> "none", failed |-> "none",
          inserted |-> IF seeds THEN n ELSE 0]

\* What a call of init_sqlite3 with result r did to the engine: the
\* statements that succeeded, and the exits of the two with blocks.
InitEvents(r) ==
    IF r.ret = "raise" \/ r.failed = "connect" THEN <<>>
    ELSE <<"conn.open", "cursor.open">>
         \o (IF r.failed = "create" THEN <<>> ELSE <<"create">>)
         \o (IF r.failed \in {"create", "count"} THEN <<>> ELSE <<"count">>)
         \o (IF r.failed \in {"insert", "commit"} \/ r.inserted > 0 THEN <<"insert">> ELSE <<>>)
         \o (IF r.failed = "none" THEN <<"commit">> ELSE <<>>)
         \o CursorExit(r.failed) \o ConnExit(r.failed)

(***************************************************************************)
(* ingest_sqlite3                                                          *)
(***************************************************************************)
IngestFaults == {"none", "connect", "select"}

\* Variant: a handler that does not catch the exception.
IngestExcept_raise(d, point) ==
    [db |-> d, list |-> EmptyBag, exc |-> "OperationalError", failed |-> point]

\* entry_list = [] ... except: Logger.exception(...) ... return entry_list
IngestExcept(d, point) == [db |-> d, list |-> EmptyBag, exc |-> "none", failed |-> point]

ingest_sqlite3(dr, d, fault) ==
    IF dr # "exists" \/ fault = "connect" THEN IngestExcept(d, "connect")
    ELSE LET d1 == Connect(d) IN
         IF ~d1.table \/ fault = "select" THEN IngestExcept(d1, "select")
    ELSE [db |-> d1, list |-> SelectAll(d1.rows), exc |-> "none", failed |-> "none"]

IngestEvents(r) ==
    IF r.failed = "connect" THEN <<>>
    ELSE <<"conn.open", "cursor.open">>
         \o (IF r.failed = "none" THEN <<"select">> ELSE <<>>)
         \o CursorExit(r.failed) \o ConnExit(r.failed)

(***************************************************************************)
(* delete_sqlite_entries                                                   *)
(***************************************************************************)
DeleteFaults == {"none", "connect", "delete", "commit"}
TableNames == {"entries", "buttons"}

\* Variant: the DELETE persists although the call fails.
DeleteExcept_emptied(d, point) ==
    [db |-> [d EXCEPT !.rows = EmptyBag], ret |-> "False", exc |-> "none", failed |-> point]

\* except: Logger.exception(...); return False
DeleteExcept(d, point) == [db |-> d, ret |-> "False", exc |-> "none", failed |-> point]

delete_sqlite_entries(dr, d, table_name, fault) ==
    IF dr # "exists" \/ fault = "connect" THEN DeleteExcept(d, "connect")
    ELSE LET d1 == Connect(d) IN
         IF ~d1.table \/ table_name # "entries" \/ fault = "delete"
         THEN DeleteExcept(d1, "delete")
    ELSE IF fault = "commit" THEN DeleteExcept(Rollback(d1, DeleteAll(d1.rows)), "commit")
    ELSE [db |-> Commit(d1, DeleteAll(d1.rows)), ret |-> "True", exc |-> "none",
          failed |-> "none"]

\* The commit of delete_sqlite_entries comes after the cursor's with block.
DeleteEvents(r) ==
    IF r.failed = "connect" THEN <<>>
    ELSE <<"conn.open", "cursor.open">>
         \o (IF r.failed = "delete" THEN <<>> ELSE <<"delete">>)
         \o CursorExit(IF r.failed = "delete" THEN "delete" ELSE "none")
         \o (IF r.failed = "none" THEN <<"commit">> ELSE <<>>)
         \o ConnExit(r.failed)

\* The connections and cursors left open by a call that did the events ev.
Times(ev, name) == Cardinality({i \in DOMAIN ev : ev[i] = name})

LeftOpen(o, ev) ==
    [conn |-> o.conn + Times(ev, "conn.open") - Times(ev, "conn.close"),
     cursor |-> o.cursor + Times(ev, "cursor.open") - Times(ev, "cursor.close")]

(***************************************************************************)
(* load_button                                                             *)
(***************************************************************************)
PyStr(chars) == [type |-> "str", val |-> chars]
\* An int, by its decimal digits.
PyInt(digits) == [type |-> "int", val |-> digits]

\* str.split(sep)
RECURSIVE SplitFrom(_, _, _, _)
SplitFrom(s, sep, i, cur) ==
    IF i > Len(s) THEN <<cur>>
    ELSE IF s[i] = sep THEN <<cur>> \o SplitFrom(s, sep, i + 1, <<>>)
    ELSE SplitFrom(s, sep, i + 1, Append(cur, s[i]))

Split(s, sep) == SplitFrom(s, sep, 1, <<>>)

\* Variant: the channels alone, no opacity appended.
ColorTuple_noAlpha(color) ==
    LET parts == Split(color, "_")
    IN [i \in 1..Len(parts) |-> PyStr(parts[i])]

\* tuple(button_tuple[1].split('_') + [1,])
ColorTuple(color) ==
    LET parts == Split(color, "_")
    IN [i \in 1..Len(parts) |-> PyStr(parts[i])] \o <<PyInt(<<"1">>)>>

\* EntryButton(text=text, background_color=color)
load_button(button_tuple) ==
    [text |-> button_tuple[1], background_color |-> ColorTuple(button_tuple[2])]

(***************************************************************************)
(* The store at start: no folder, no file, no table, or a table that holds *)
(* rows from before.                                                       *)
(***************************************************************************)
NoFile == [file |-> FALSE, table |-> FALSE, rows |-> EmptyBag]

\* Row counts of the store at start, around the thresholds of init_sqlite3.
PreCounts == {0, 1, 2, MIN_ENTRIES - 1, MIN_ENTRIES, MaxPre}

InitialStores ==
    {NoFile, [NoFile EXCEPT !.file = TRUE]}
    \cup {[file |-> TRUE, table |-> TRUE, rows |-> Copies(ForeignRow, c)] : c \in PreCounts}

Snapshot == [dir |-> dir, db |-> db]

Init ==
    /\ dir \in {"absent", "exists", "blocked", "file"}
    /\ db \in (IF dir = "exists" THEN InitialStores ELSE {NoFile})
    /\ sqlite_dir = "unset"
    /\ initialized = "unset"
    /\ last = NoCall
    /\ before = Snapshot
    /\ entry_list = EmptyBag
    /\ seeded = EmptyBag
    /\ base = db.rows
    /\ clears = 0
    /\ events = <<>>
    /\ open = [conn |-> 0, cursor |-> 0]
    /\ phase = "off"
    /\ inits = 0
    /\ button = NoButton

(***************************************************************************)
(* Calls of the four store operations.                                     *)
(***************************************************************************)
InitSqlite3Dir ==
    LET r == init_sqlite3_dir(dir) IN
    /\ dir' = r.dir
    /\ last' = [NoCall EXCEPT !.op = "init_sqlite3_dir", !.via = "api", !.ret = r.folder]
    /\ before' = Snapshot
    /\ entry_list' = EmptyBag
    /\ clears' = 0
    /\ events' = <<>>
    /\ UNCHANGED <<db, sqlite_dir, initialized, seeded, base, open, phase, inits, button>>

\* The effect of init_sqlite3(arg) on the store and on the record of the call.
RunInit(via, arg, fault, draws) ==
    LET r == init_sqlite3(arg, dir, db, fault, draws) IN
    /\ BagCardinality(db.rows) <= MaxPre
    /\ fault = "none" \/ r.failed = fault
    /\ db' = r.db
    /\ seeded' = seeded (+) Drawn(r.inserted, draws)
    /\ last' = [op |-> "init_sqlite3", via |-> via, arg |-> arg, fault |-> fault,
                ret |-> r.ret, exc |-> r.exc, failed |-> r.failed, inserted |-> r.inserted]
    /\ entry_list' = EmptyBag
    /\ clears' = 0
    /\ events' = InitEvents(r)
    /\ open' = LeftOpen(open, InitEvents(r))
    /\ UNCHANGED <<base, button>>

InitSqlite3 ==
    \E arg \in {"None", "sqlite"}, fault \in InitFaults :
      \E draws \in DrawsOf(fault) :
        /\ RunInit("api", arg, fault, draws)
        /\ before' = Snapshot
        /\ UNCHANGED <<dir, sqlite_dir, initialized, phase, inits>>

IngestSqlite3 ==
    \E fault \in IngestFaults :
        LET r == ingest_sqlite3(dir, db, fault) IN
        /\ fault = "none" \/ r.failed = fault
        /\ db' = r.db
        /\ entry_list' = r.list
        /\ last' = [NoCall EXCEPT !.op = "ingest_sqlite3", !.via = "api", !.arg = "test.db",
                                  !.fault = fault, !.ret = "list", !.exc = r.exc,
                                  !.failed = r.failed]
        /\ before' = Snapshot
        /\ clears' = 0
        /\ events' = IngestEvents(r)
        /\ open' = LeftOpen(open, IngestEvents(r))
        /\ UNCHANGED <<dir, sqlite_dir, initialized, seeded, base, phase, inits, button>>

DeleteSqliteEntries ==
    \E table_name \in TableNames, fault \in DeleteFaults :
        LET r == delete_sqlite_entries(dir, db, table_name, fault) IN
        /\ fault = "none" \/ r.failed = fault
        /\ db' = r.db
        /\ clears' = IF r.ret = "True" THEN Min(clears + 1, MaxClears) ELSE 0
        /\ seeded' = IF r.ret = "True" THEN EmptyBag ELSE seeded
        /\ base' = IF r.ret = "True" THEN EmptyBag ELSE base
        /\ last' = [NoCall EXCEPT !.op = "delete_sqlite_entries", !.via = "api",
                                  !.arg = table_name, !.fault = fault, !.ret = r.ret,
                                  !.exc = r.exc, !.failed = r.failed]
        /\ before' = Snapshot
        /\ entry_list' = EmptyBag
        /\ events' = DeleteEvents(r)
        /\ open' = LeftOpen(open, DeleteEvents(r))
        /\ UNCHANGED <<dir, sqlite_dir, initialized, phase, inits, button>>

(***************************************************************************)
(* SqliteApp.__init__: provisioning, then init_sqlite3 on its result.  An  *)
(* exception of init_sqlite3 leaves the constructor before the assignment  *)
(* to self.initialized.                                                    *)
(***************************************************************************)
SqliteApp_init ==
    \E fault \in InitFaults :
      \E draws \in DrawsOf(fault) :
        LET p == init_sqlite3_dir(dir)
            r == init_sqlite3(p.folder, p.dir, db, fault, draws)
        IN
        /\ BagCardinality(db.rows) <= MaxPre
        /\ fault = "none" \/ r.failed = fault
        /\ dir' = p.dir
        /\ sqlite_dir' = p.folder
        /\ initialized' = IF r.ret = "raise" THEN "unset" ELSE r.ret
        /\ db' = r.db
        /\ seeded' = seeded (+) Drawn(r.inserted, draws)
        /\ last' = [op |-> "init_sqlite3", via |-> "__init__", arg |-> p.folder,
                    fault |-> fault, ret |-> r.ret, exc |-> r.exc, failed |-> r.failed,
                    inserted |-> r.inserted]
        /\ clears' = 0
        /\ before' = Snapshot
        /\ entry_list' = EmptyBag
        /\ events' = InitEvents(r)
        /\ open' = LeftOpen(open, InitEvents(r))
        /\ phase' = IF r.ret = "raise" THEN "crashed" ELSE "running"
        /\ inits' = 1
        /\ UNCHANGED <<base, button>>

(***************************************************************************)
(* load_buttons and on_stop, on the app object that the constructor left.  *)
(* Neither consults self.initialized.  The widgets that load_buttons makes *)
(* of the lines belong to the layout and are not part of the store.        *)
(***************************************************************************)
\* Variant: loading seeds the store again before it reads.
load_buttons_reseed(dr, d, fault) ==
    LET i == init_sqlite3("sqlite", dr, d, "none", <<>>)
        r == ingest_sqlite3(dr, i.db, fault)
    IN [db |-> r.db, lines |-> r.list, exc |-> r.exc, failed |-> r.failed, inits |-> 1]

\* lines = self.ingest_sqlite3(os.path.join(self.sqlite_dir, DB_NAME))
load_buttons(dr, d, fault) ==
    LET r == ingest_sqlite3(dr, d, fault)
    IN [db |-> r.db, lines |-> r.list, exc |-> r.exc, failed |-> r.failed, inits |-> 0]

\* return self.delete_sqlite_entries(os.path.join(self.sqlite_dir, DB_NAME), 'entries')
on_stop(dr, d, fault) == delete_sqlite_entries(dr, d, "entries", fault)

LoadButtons ==
    /\ phase \in {"running", "cleared", "stopped"}
    /\ \E fault \in IngestFaults :
        LET r == load_buttons(dir, db, fault) IN
        /\ fault = "none" \/ r.failed = fault
        /\ db' = r.db
        /\ entry_list' = r.lines
        /\ last' = [NoCall EXCEPT !.op = "ingest_sqlite3", !.via = "load_buttons",
                                  !.arg = "test.db", !.fault = fault, !.ret = "list",
                                  !.exc = r.exc, !.failed = r.failed]
        /\ before' = Snapshot
        /\ clears' = 0
        /\ events' = IngestEvents(r)
        /\ open' = LeftOpen(open, IngestEvents(r))
        /\ inits' = inits + r.inits
        /\ UNCHANGED <<dir, sqlite_dir, initialized, seeded, base, phase, button>>

OnStop ==
    /\ phase = "running"
    /\ \E fault \in DeleteFaults :
        LET r == on_stop(dir, db, fault) IN
        /\ fault = "none" \/ r.failed = fault
        /\ db' = r.db
        /\ clears' = IF r.ret = "True" THEN Min(clears + 1, MaxClears) ELSE 0
        /\ seeded' = IF r.ret = "True" THEN EmptyBag ELSE seeded
        /\ base' = IF r.ret = "True" THEN EmptyBag ELSE base
        /\ last' = [NoCall EXCEPT !.op = "delete_sqlite_entries", !.via = "on_stop",
                                  !.arg = "entries", !.fault = fault, !.ret = r.ret,
                                  !.exc = r.exc, !.failed = r.failed]
        /\ before' = Snapshot
        /\ entry_list' = EmptyBag
        /\ events' = DeleteEvents(r)
        /\ open' = LeftOpen(open, DeleteEvents(r))
        /\ phase' = IF r.ret = "True" THEN "cleared" ELSE "stopped"
        /\ UNCHANGED <<dir, sqlite_dir, initialized, inits, button>>

\* The store under any sequence of calls of its operations.
Next ==
    \/ InitSqlite3Dir
    \/ InitSqlite3
    \/ IngestSqlite3
    \/ DeleteSqliteEntries

Spec == Init /\ [][Next]_vars

\* The store under runs of the app, one after the other: the construction,
\* then calls of load_buttons, then on_stop; a run can end at any point.
NextApp ==
    \/ SqliteApp_init
    \/ LoadButtons
    \/ OnStop

SpecApp == Init /\ [][NextApp]_vars

(***************************************************************************)
(* load_button on its own: each entry of ButtonInputs is projected once.   *)
(***************************************************************************)
ButtonInputs ==
    (Range(TEXTS) \cup {"old entry"})
    \X (Range(COLORS) \cup {<<"7", "_", "7">>, <<>>, <<"a", "_", "b", "_", "c", "_", "d">>})

InitButton ==
    /\ dir = "absent"
    /\ db = NoFile
    /\ sqlite_dir = "unset"
    /\ initialized = "unset"
    /\ last = NoCall
    /\ before = Snapshot
    /\ entry_list = EmptyBag
    /\ seeded = EmptyBag
    /\ base = EmptyBag
    /\ clears = 0
    /\ events = <<>>
    /\ open = [conn |-> 0, cursor |-> 0]
    /\ phase = "off"
    /\ inits = 0
    /\ button \in {[NoButton EXCEPT !.arg = e] : e \in ButtonInputs}

LoadButton ==
    /\ ~button.done
    /\ button' = [button EXCEPT !.done = TRUE, !.widget = load_button(button.arg)]
    /\ UNCHANGED <<dir, db, sqlite_dir, initialized, last, before, entry_list, seeded, base,
                   clears, events, open, phase, inits>>

NextButton == LoadButton

SpecButton == InitButton /\ [][NextButton]_vars

(***************************************************************************)
(* Properties.                                                             *)
(***************************************************************************)
Count(rows) == BagCardinality(rows)

InitReturned == last.op = "init_sqlite3"
InitSucceeded == InitReturned /\ last.ret = "True"
IngestReturned == last.op = "ingest_sqlite3"
DeleteReturned == last.op = "delete_sqlite_entries"

\* C1: from a store of c rows, 0 <= c <= 99, a successful init_sqlite3
\* inserts 101 - c rows and leaves exactly 101 rows.
C1_TopUpTo101 ==
    (InitSucceeded /\ Count(before.db.rows) < MIN_ENTRIES)
        => /\ Count(db.rows) = TOPUP_TARGET
           /\ last.inserted = TOPUP_TARGET - Count(before.db.rows)

\* C2: on a table of 100 rows or more, init_sqlite3 inserts nothing and
\* leaves the rows as they were.
C2_NoTopUpFrom100 ==
    (InitReturned /\ before.db.table /\ Count(before.db.rows) >= MIN_ENTRIES)
        => /\ last.inserted = 0
           /\ db.rows = before.db.rows

\* C3: when init_sqlite3 returns True, the table entries exists and holds
\* at least MIN_ENTRIES rows, whatever the store was before.
C3_MinimumPopulation ==
    InitSucceeded => (db.table /\ Count(db.rows) >= MIN_ENTRIES)

C3_Witness ==
    /\ InitSucceeded
    /\ ~before.db.table
    /\ Count(db.rows) >= MIN_ENTRIES

\* C4: when the connect, the CREATE TABLE, the count, an INSERT or the
\* commit of init_sqlite3 fails, init_sqlite3 returns False and raises
\* nothing.
C4_FailureReturnsFalse ==
    (InitReturned /\ last.failed # "none")
        => (last.ret = "False" /\ last.exc = "none")

C4_Witness ==
    /\ InitReturned
    /\ last.failed = "commit"
    /\ last.ret = "False"

\* C5: when init_sqlite3_dir yields no directory, the constructor sets
\* initialized to False and no exception leaves it.
C5_ProvisioningFailureReported ==
    (last.via = "__init__" /\ sqlite_dir = "None")
        => (initialized = "False" /\ last.exc = "none")

C5_Witness ==
    /\ last.via = "__init__"
    /\ sqlite_dir = "None"
    /\ last.exc = "NameError"

\* C6: a successful delete_sqlite_entries leaves the table in place and
\* empty; ingest_sqlite3 right after it returns the empty list; a second
\* delete_sqlite_entries("entries") right after it, with no fault of the
\* engine, returns True again and leaves no row.
C6_ClearTotalIdempotent ==
    [][ /\ (DeleteReturned' /\ last'.ret = "True")
            => (db'.table /\ db'.rows = EmptyBag)
        /\ (DeleteReturned /\ last.ret = "True" /\ IngestReturned')
            => entry_list' = EmptyBag
        /\ (DeleteReturned /\ last.ret = "True" /\ DeleteReturned'
              /\ last'.arg = "entries" /\ last'.fault = "none")
            => (last'.ret = "True" /\ Count(db'.rows) = 0) ]_vars

\* The second of two successive clears, on the table the first one emptied.
C6_Witness ==
    /\ DeleteReturned
    /\ last.ret = "True"
    /\ clears = 2
    /\ before.db.table
    /\ before.db.rows = EmptyBag

\* C7: ingest_sqlite3 returns the committed rows with their multiplicities:
\* each row as often as the store held it at start plus as often as
\* committed INSERTs added it since, back to the last committed DELETE.
C7_ListIsContents ==
    (IngestReturned /\ last.failed = "none")
        => entry_list = base (+) seeded

C7_Witness ==
    /\ IngestReturned
    /\ last.failed = "none"
    /\ \E r \in BagToSet(seeded) : CopiesIn(r, entry_list) = 1
    /\ \E r \in BagToSet(seeded) : CopiesIn(r, entry_list) > 1
    /\ \E r \in BagToSet(base) : CopiesIn(r, entry_list) > 1

\* C8: when the folder, the file or the table is missing, ingest_sqlite3
\* raises nothing and returns the empty list, the value it returns for an
\* empty table.
C8_ReadFailureIsEmpty ==
    /\ (IngestReturned /\ (before.dir # "exists" \/ ~before.db.file \/ ~before.db.table))
         => (entry_list = EmptyBag /\ last.exc = "none" /\ last.failed # "none")
    /\ (IngestReturned /\ before.db.table /\ before.db.rows = EmptyBag /\ last.fault = "none")
         => (entry_list = EmptyBag /\ last.exc = "none" /\ last.failed = "none")

C8_Witness ==
    /\ IngestReturned
    /\ before.dir = "exists"
    /\ before.db.file
    /\ ~before.db.table
    /\ last.failed = "select"

\* C9: every row of the store before init_sqlite3 is in the store after it,
\* as many times at least.
C9_TopUpAdditive ==
    InitReturned => (before.db.rows \sqsubseteq db.rows)

C9_Witness ==
    /\ InitSucceeded
    /\ Count(before.db.rows) > 0
    /\ Count(db.rows) > Count(before.db.rows)

(***************************************************************************)
(* load_button                                                             *)
(***************************************************************************)
Underscores(color) == {i \in DOMAIN color : color[i] = "_"}

\* The channels of a color with two underscores, read off their positions.
Channels(color) ==
    LET i == CHOOSE i \in Underscores(color) : \A j \in Underscores(color) : i <= j
        k == CHOOSE k \in Underscores(color) : \A j \in Underscores(color) : j <= k
    IN << SubSeq(color, 1, i - 1), SubSeq(color, i + 1, k - 1),
          SubSeq(color, k + 1, Len(color)) >>

LoremIpsum == <<"Lorem Ipsum", <<"1", "_", "0", ".", "0", "_", "0", ".", "0">> >>

\* C10, as claimed: the button of (text, "r_g_b") has the text and the four
\* strings r, g, b and "1".
C10_OpacityIsString ==
    (button.done /\ Cardinality(Underscores(button.arg[2])) = 2)
        => LET ch == Channels(button.arg[2]) IN
           /\ button.widget.text = button.arg[1]
           /\ button.widget.background_color =
                  <<PyStr(ch[1]), PyStr(ch[2]), PyStr(ch[3]), PyStr(<<"1">>)>>

\* C10, amended: the button of (text, "r_g_b") has the text and the three
\* strings r, g, b followed by the integer 1; for ("Lorem Ipsum",
\* "1_0.0_0.0") that is ("1", "0.0", "0.0", 1).
C10_OpacityIsInt ==
    /\ (button.done /\ Cardinality(Underscores(button.arg[2])) = 2)
         => LET ch == Channels(button.arg[2]) IN
            /\ button.widget.text = button.arg[1]
            /\ button.widget.background_color =
                   <<PyStr(ch[1]), PyStr(ch[2]), PyStr(ch[3]), PyInt(<<"1">>)>>
    /\ (button.done /\ button.arg = LoremIpsum)
         => button.widget =
                [text |-> "Lorem Ipsum",
                 background_color |-> <<PyStr(<<"1">>), PyStr(<<"0", ".", "0">>),
                                        PyStr(<<"0", ".", "0">>), PyInt(<<"1">>)>>]

C10_Witness ==
    /\ button.done
    /\ button.arg = LoremIpsum
    /\ Len(button.widget.background_color) = 4


\* C11: delete_sqlite_entries returns True when its DELETE and its commit
\* succeed and False, raising nothing, when anything fails (no folder, no
\* such table, a fault of the engine); when it returns False the rows of
\* the store are those from before the call.
C11_ClearReportsFailure ==
    DeleteReturned
        => /\ last.exc = "none"
           /\ last.ret \in {"True", "False"}
           /\ (last.ret = "True") <=> (last.failed = "none")
           /\ (last.ret = "False") => (db.rows = before.db.rows)

C11_Witness ==
    /\ DeleteReturned
    /\ last.ret = "False"
    /\ last.failed = "commit"
    /\ Count(db.rows) > 0

(***************************************************************************)
(* Connections, cursors and the commit                                     *)
(***************************************************************************)
Prefixes(ev) == {SubSeq(ev, 1, k) : k \in 0..Len(ev)}
Nothing == [conn |-> 0, cursor |-> 0]

\* C12: between calls no connection and no cursor is open; a call opens at
\* most one connection and one cursor, never has more than one of each open
\* at a time, and has released both when it returns, whether it succeeded
\* or failed.
C12_ConnectionScope ==
    /\ open = Nothing
    /\ Times(events, "conn.open") <= 1
    /\ Times(events, "cursor.open") <= 1
    /\ \A p \in Prefixes(events) :
           /\ LeftOpen(Nothing, p).conn \in {0, 1}
           /\ LeftOpen(Nothing, p).cursor \in {0, 1}
           /\ LeftOpen(Nothing, p).cursor <= LeftOpen(Nothing, p).conn
    /\ LeftOpen(Nothing, events) = Nothing

C12_Witness ==
    /\ last.op \in {"init_sqlite3", "ingest_sqlite3", "delete_sqlite_entries"}
    /\ last.failed \notin {"none", "connect"}
    /\ Times(events, "conn.open") = 1
    /\ Times(events, "cursor.open") = 1
    /\ Times(events, "conn.close") = 1

\* C14: a call of init_sqlite3 that fails leaves the committed rows as they
\* were before the call, also when the failure came after some INSERTs; a
\* call commits at most once, and no INSERT follows the commit.
C14_SeedingIsAtomic ==
    InitReturned
        => /\ (last.ret # "True") => (db.rows = before.db.rows)
           /\ Times(events, "commit") <= 1
           /\ \A i, j \in DOMAIN events :
                  (events[i] = "commit" /\ events[j] = "insert") => j < i
           /\ (Times(events, "commit") = 1) <=> (last.ret = "True")

C14_Witness ==
    /\ InitReturned
    /\ last.failed = "insert"
    /\ last.ret = "False"
    /\ Times(events, "insert") = 1
    /\ Times(events, "commit") = 0
    /\ db.rows = before.db.rows


(***************************************************************************)
(* Provisioning                                                            *)
(***************************************************************************)
\* C13: where the folder exists or can be created, a call of
\* init_sqlite3_dir returns the path <base>/sqlite without an error, a
\* second call included, and the directory exists after it.
C13_ProvisioningIdempotent ==
    (last.op = "init_sqlite3_dir" /\ before.dir # "blocked")
        => /\ last.ret = "sqlite"
           /\ last.exc = "none"
           /\ dir = "exists"


(***************************************************************************)
(* Frame of the operations, and the seeded rows                            *)
(***************************************************************************)
\* C16: a call of ingest_sqlite3 leaves the table and its rows as they
\* were, however many calls came before it; the number of rows grows only
\* in a successful init_sqlite3, by the rows its seeding loop inserted.
C16_ReadingIsPure ==
    /\ IngestReturned
           => /\ db.rows = before.db.rows
              /\ db.table = before.db.table
    /\ \A r \in BagToSet(db.rows) :
           CopiesIn(r, db.rows) > CopiesIn(r, before.db.rows)
               => /\ InitSucceeded
                  /\ last.inserted > 0
                  /\ Count(db.rows) = Count(before.db.rows) + last.inserted

C16_Witness ==
    /\ IngestReturned
    /\ last.failed = "none"
    /\ Count(entry_list) > MIN_ENTRIES
    /\ base # EmptyBag
    /\ seeded # EmptyBag
    /\ db.rows = before.db.rows

\* C17: every row that a seeding added to the store has its text in TEXTS
\* and its color in COLORS; in a store that started without rows, every
\* entry that ingest_sqlite3 returns is such a pair.
C17_SeedsFromPalette ==
    /\ BagToSet(db.rows (-) base) \subseteq Palette
    /\ (IngestReturned /\ base = EmptyBag) => BagToSet(entry_list) \subseteq Palette

C17_Witness ==
    /\ IngestReturned
    /\ last.failed = "none"
    /\ base = EmptyBag
    /\ Count(entry_list) = MIN_ENTRIES
    /\ CopiesIn(<<TEXTS[6], COLORS[2]>>, entry_list) = 1
    /\ CopiesIn(<<TEXTS[1], COLORS[1]>>, entry_list) = MIN_ENTRIES - 1


(***************************************************************************)
(* One run of the app                                                      *)
(***************************************************************************)
Alive == {"running", "cleared", "stopped"}

\* C15: in a run of the app init_sqlite3 is called once, by the
\* constructor, after init_sqlite3_dir; load_buttons and on_stop come after
\* it; once on_stop has cleared the table, no step of the same run adds a
\* row: the table stays empty until the constructor of the next run.
C15_ClearedIsTerminal ==
    /\ (phase = "cleared") => (db.table /\ db.rows = EmptyBag)
    /\ (phase \in Alive)
           => /\ inits = 1
              /\ sqlite_dir = "sqlite"
              /\ initialized \in {"True", "False"}
    /\ (phase = "crashed") => (inits = 1 /\ sqlite_dir = "None")
    /\ (phase = "off") => (inits = 0 /\ last = NoCall)
    /\ InitReturned => (last.via = "__init__" /\ phase \in {"running", "crashed"})
    /\ (last.via \in {"load_buttons", "on_stop"}) => (phase \in Alive)
    /\ (last.via = "load_buttons") => (db.rows = before.db.rows)

C15_Witness ==
    /\ phase = "cleared"
    /\ initialized = "True"
    /\ last.via = "load_buttons"
    /\ last.failed = "none"
    /\ entry_list = EmptyBag
    /\ inits = 1

\* C18: whenever load_buttons or on_stop gets as far as executing its
\* SELECT or its DELETE, the table entries was there before the call.
C18_TableBeforeUse ==
    (last.via \in {"load_buttons", "on_stop"} /\ last.failed # "connect")
        => before.db.table

====
